---- MODULE Spec2Model ----
(***************************************************************************)
(* mime-detector: the signature matcher, the extension table and the       *)
(* resolver getMimeType with its I/O, the four category predicates and     *)
(* getMimeExtension.                                                       *)
(*                                                                         *)
(* A JavaScript string is the tuple of its character codes, so that        *)
(* toLowerCase, startsWith, slice and path.extname are computed on         *)
(* characters; a Buffer is a tuple of bytes 0..255.  Every literal below   *)
(* carries its text in the comment of its line.                            *)
(***************************************************************************)
EXTENDS Integers, Sequences, FiniteSets, TLC

VARIABLES
    pc,                 \* position of the one call in progress
    op,                 \* the exported function that was called
    arg,                \* its string argument (filePathOrUrl / mimeType)
    table,              \* the exported array magicBytes that checkMagicBytes iterates
    openFds,            \* file descriptors of the process that are open
    fd,                 \* getMimeType: const fd
    content,            \* the bytes the file / the response body holds
    buffer,             \* getMimeType: let buffer
    magicByteMimeType,  \* getMimeType: const magicByteMimeType
    extension,          \* getMimeType: const extension
    mimeType,           \* the value getMimeType resolved with
    exit,               \* the return statement getMimeType left by
    ret,                \* the value the exported function resolved with
    threw               \* the error the exported function rejected with

vars == <<pc, op, arg, table, openFds, fd, content, buffer, magicByteMimeType,
          extension, mimeType, exit, ret, threw>>

----------------------------------------------------------------------------
(* JavaScript values *)

Undefined == [kind |-> "undefined", val |-> <<>>]

Null == [kind |-> "null", val |-> <<>>]

Str(s) == [kind |-> "string", val |-> s]

Bool(b) == [kind |-> "boolean", val |-> IF b THEN <<1>> ELSE <<0>>]

\* Object.prototype's own property values: functions and accessors, none a string
ObjectProtoValue(name) == [kind |-> "object", val |-> name]

\* truthiness as `if (x)` and `x || y` test it
Truthy(v) ==
    CASE v.kind = "undefined" -> FALSE
      [] v.kind = "null" -> FALSE
      [] v.kind = "string" -> v.val # <<>>
      [] v.kind = "boolean" -> v.val = <<1>>
      [] OTHER -> TRUE

\* String.prototype.toLowerCase on one character code (A-Z -> a-z)
lowerChar(c) == IF c >= 65 /\ c <= 90 THEN c + 32 ELSE c

toLowerCase(s) == [i \in 1..Len(s) |-> lowerChar(s[i])]

startsWith(s, prefix) ==
    /\ Len(s) >= Len(prefix)
    /\ SubSeq(s, 1, Len(prefix)) = prefix

\* s.slice(from, to) with 0-based from (inclusive) and to (exclusive)
slice(s, from, to) == SubSeq(s, from + 1, to)

\* a & b on unsigned bytes
RECURSIVE BitAnd(_, _)
BitAnd(a, b) ==
    IF a = 0 \/ b = 0 THEN 0
    ELSE ((a % 2) * (b % 2)) + 2 * BitAnd(a \div 2, b \div 2)

----------------------------------------------------------------------------
(* The signature table *)

magicBytes ==
    << \* PDF
       [mimeType |-> <<97, 112, 112, 108, 105, 99, 97, 116, 105, 111, 110, 47, 112, 100, 102>>,
        signatures |-> << [bytes |-> <<37, 80, 68, 70>>] >>],          \* 25 50 44 46  %PDF
       \* JPEG
       [mimeType |-> <<105, 109, 97, 103, 101, 47, 106, 112, 101, 103>>,
        signatures |-> << [bytes |-> <<255, 216, 255, 224>>],          \* ff d8 ff e0
                          [bytes |-> <<255, 216, 255, 225>>],          \* ff d8 ff e1
                          [bytes |-> <<255, 216, 255, 232>>] >>],      \* ff d8 ff e8
       \* PNG
       [mimeType |-> <<105, 109, 97, 103, 101, 47, 112, 110, 103>>,
        signatures |-> << [bytes |-> <<137, 80, 78, 71, 13, 10, 26, 10>>] >>],  \* 89 50 4e 47 0d 0a 1a 0a
       \* GIF
       [mimeType |-> <<105, 109, 97, 103, 101, 47, 103, 105, 102>>,
        signatures |-> << [bytes |-> <<71, 73, 70, 56, 55, 97>>],      \* GIF87a
                          [bytes |-> <<71, 73, 70, 56, 57, 97>>] >>],  \* GIF89a
       \* MP3
       [mimeType |-> <<97, 117, 100, 105, 111, 47, 109, 112, 101, 103>>,
        signatures |-> << [bytes |-> <<73, 68, 51>>],                  \* ID3v2
                          [bytes |-> <<255, 251>>] >>],                \* ff fb  MPEG sync
       \* MP4
       [mimeType |-> <<118, 105, 100, 101, 111, 47, 109, 112, 52>>,
        signatures |-> << [bytes |-> <<102, 116, 121, 112>>, offset |-> 4],     \* ftyp
                          [bytes |-> <<109, 112, 52, 50>>, offset |-> 8] >>],   \* mp42
       \* WebM
       [mimeType |-> <<118, 105, 100, 101, 111, 47, 119, 101, 98, 109>>,
        signatures |-> << [bytes |-> <<26, 69, 223, 163>>] >>]         \* 1a 45 df a3
    >>

(* The extension table, its entries in declaration order (the order        *)
(* Object.entries gives for these keys, none of them an array index).      *)
mimeTypes ==
    << <<<<112, 100, 102>>, <<97, 112, 112, 108, 105, 99, 97, 116, 105, 111, 110, 47, 112, 100, 102>>>>,      \* pdf: 'application/pdf'
       <<<<100, 111, 99>>, <<97, 112, 112, 108, 105, 99, 97, 116, 105, 111, 110, 47, 109, 115, 119, 111, 114, 100>>>>,   \* doc: 'application/msword'
       <<<<100, 111, 99, 120>>, <<97, 112, 112, 108, 105, 99, 97, 116, 105, 111, 110, 47, 118, 110, 100, 46, 111, 112, 101, 110, 120, 109, 108, 102, 111, 114, 109, 97, 116, 115, 45, 111, 102, 102, 105, 99, 101, 100, 111, 99, 117, 109, 101, 110, 116, 46, 119, 111, 114, 100, 112, 114, 111, 99, 101, 115, 115, 105, 110, 103, 109, 108, 46, 100, 111, 99, 117, 109, 101, 110, 116>>>>,  \* docx: 'application/vnd.openxmlformats-officedocument.wordprocessingml.document'
       <<<<116, 120, 116>>, <<116, 101, 120, 116, 47, 112, 108, 97, 105, 110>>>>,           \* txt: 'text/plain'
       <<<<114, 116, 102>>, <<97, 112, 112, 108, 105, 99, 97, 116, 105, 111, 110, 47, 114, 116, 102>>>>,      \* rtf: 'application/rtf'
       <<<<106, 112, 103>>, <<105, 109, 97, 103, 101, 47, 106, 112, 101, 103>>>>,           \* jpg: 'image/jpeg'
       <<<<106, 112, 101, 103>>, <<105, 109, 97, 103, 101, 47, 106, 112, 101, 103>>>>,          \* jpeg: 'image/jpeg'
       <<<<112, 110, 103>>, <<105, 109, 97, 103, 101, 47, 112, 110, 103>>>>,            \* png: 'image/png'
       <<<<103, 105, 102>>, <<105, 109, 97, 103, 101, 47, 103, 105, 102>>>>,            \* gif: 'image/gif'
       <<<<119, 101, 98, 112>>, <<105, 109, 97, 103, 101, 47, 119, 101, 98, 112>>>>,          \* webp: 'image/webp'
       <<<<115, 118, 103>>, <<105, 109, 97, 103, 101, 47, 115, 118, 103, 43, 120, 109, 108>>>>,        \* svg: 'image/svg+xml'
       <<<<109, 112, 51>>, <<97, 117, 100, 105, 111, 47, 109, 112, 101, 103>>>>,           \* mp3: 'audio/mpeg'
       <<<<119, 97, 118>>, <<97, 117, 100, 105, 111, 47, 119, 97, 118>>>>,            \* wav: 'audio/wav'
       <<<<111, 103, 103>>, <<97, 117, 100, 105, 111, 47, 111, 103, 103>>>>,            \* ogg: 'audio/ogg'
       <<<<109, 52, 97>>, <<97, 117, 100, 105, 111, 47, 109, 112, 52>>>>,            \* m4a: 'audio/mp4'
       <<<<109, 112, 52>>, <<118, 105, 100, 101, 111, 47, 109, 112, 52>>>>,            \* mp4: 'video/mp4'
       <<<<119, 101, 98, 109>>, <<118, 105, 100, 101, 111, 47, 119, 101, 98, 109>>>>,          \* webm: 'video/webm'
       <<<<97, 118, 105>>, <<118, 105, 100, 101, 111, 47, 120, 45, 109, 115, 118, 105, 100, 101, 111>>>>,      \* avi: 'video/x-msvideo'
       <<<<109, 111, 118>>, <<118, 105, 100, 101, 111, 47, 113, 117, 105, 99, 107, 116, 105, 109, 101>>>>,      \* mov: 'video/quicktime'
       <<<<109, 107, 118>>, <<118, 105, 100, 101, 111, 47, 120, 45, 109, 97, 116, 114, 111, 115, 107, 97>>>>      \* mkv: 'video/x-matroska'
    >>

(* mimeTypes is an object literal, so its prototype is Object.prototype:   *)
(* a property read that finds no own key goes on to these names.           *)
ObjectPrototypeKeys ==
    { <<99, 111, 110, 115, 116, 114, 117, 99, 116, 111, 114>>,               \* constructor
      <<95, 95, 112, 114, 111, 116, 111, 95, 95>>,                 \* __proto__
      <<104, 97, 115, 79, 119, 110, 80, 114, 111, 112, 101, 114, 116, 121>>,            \* hasOwnProperty
      <<105, 115, 80, 114, 111, 116, 111, 116, 121, 112, 101, 79, 102>>,             \* isPrototypeOf
      <<112, 114, 111, 112, 101, 114, 116, 121, 73, 115, 69, 110, 117, 109, 101, 114, 97, 98, 108, 101>>,      \* propertyIsEnumerable
      <<116, 111, 76, 111, 99, 97, 108, 101, 83, 116, 114, 105, 110, 103>>,            \* toLocaleString
      <<116, 111, 83, 116, 114, 105, 110, 103>>,                  \* toString
      <<118, 97, 108, 117, 101, 79, 102>>,                   \* valueOf
      <<95, 95, 100, 101, 102, 105, 110, 101, 71, 101, 116, 116, 101, 114, 95, 95>>,          \* __defineGetter__
      <<95, 95, 100, 101, 102, 105, 110, 101, 83, 101, 116, 116, 101, 114, 95, 95>>,          \* __defineSetter__
      <<95, 95, 108, 111, 111, 107, 117, 112, 71, 101, 116, 116, 101, 114, 95, 95>>,          \* __lookupGetter__
      <<95, 95, 108, 111, 111, 107, 117, 112, 83, 101, 116, 116, 101, 114, 95, 95>> }         \* __lookupSetter__

\* the read mimeTypes[key]
mimeTypesGet(key) ==
    IF \E i \in 1..Len(mimeTypes) : mimeTypes[i][1] = key
    THEN Str(mimeTypes[CHOOSE i \in 1..Len(mimeTypes) : mimeTypes[i][1] = key][2])
    ELSE IF key \in ObjectPrototypeKeys
    THEN ObjectProtoValue(key)
    ELSE Undefined

\* 'application/octet-stream'
DefaultMimeType == <<97, 112, 112, 108, 105, 99, 97, 116, 105, 111, 110, 47, 111, 99, 116, 101, 116, 45, 115, 116, 114, 101, 97, 109>>

----------------------------------------------------------------------------
(* checkMagicBytes *)

\* variant of sigOffset: the offset field is never read
sigOffsetIgnored(signature) == 0

\* signature.offset || 0
sigOffset(signature) ==
    IF "offset" \in DOMAIN signature THEN signature.offset ELSE 0

\* variant of sigMask: the mask field is never read
sigMaskAlwaysFull(signature, i) == 255

\* signature.mask ? signature.mask[i] : 0xff   (i is 0-based)
sigMask(signature, i) ==
    IF "mask" \in DOMAIN signature THEN signature.mask[i + 1] ELSE 255

(* The inner for loop from index i: TRUE when no position from i on        *)
(* differs under the mask (matches stays true), FALSE at the first that    *)
(* does (matches = false; break).                                          *)
RECURSIVE bytesLoop(_, _, _)
bytesLoop(buf, signature, i) ==
    IF i >= Len(signature.bytes) THEN TRUE
    ELSE LET byte == buf[sigOffset(signature) + i + 1]
             signatureByte == signature.bytes[i + 1]
             mask == sigMask(signature, i)
         IN IF BitAnd(byte, mask) # BitAnd(signatureByte, mask)
            THEN FALSE
            ELSE bytesLoop(buf, signature, i + 1)

\* one pass of the signature loop's body: `continue` on a short buffer
signatureMatches(buf, signature) ==
    IF Len(buf) < sigOffset(signature) + Len(signature.bytes)
    THEN FALSE
    ELSE bytesLoop(buf, signature, 0)

\* for (const signature of type.signatures), from the j-th signature
RECURSIVE signaturesLoop(_, _, _)
signaturesLoop(buf, signatures, j) ==
    IF j > Len(signatures) THEN FALSE
    ELSE IF signatureMatches(buf, signatures[j]) THEN TRUE
    ELSE signaturesLoop(buf, signatures, j + 1)

\* for (const type of magicBytes), from the k-th group
RECURSIVE typesLoop(_, _, _)
typesLoop(buf, types, k) ==
    IF k > Len(types) THEN Null
    ELSE IF signaturesLoop(buf, types[k].signatures, 1) THEN Str(types[k].mimeType)
    ELSE typesLoop(buf, types, k + 1)

checkMagicBytes(buf) == typesLoop(buf, table, 1)

----------------------------------------------------------------------------
(* path.extname (the posix implementation of Node.js) *)

CHAR_FORWARD_SLASH == 47

CHAR_DOT == 46

\* the loop `for (let i = path.length - 1; i >= 0; --i)` of extname, from index i
RECURSIVE extnameLoop(_, _, _)
extnameLoop(path, i, st) ==
    IF i < 0 THEN st
    ELSE LET code == path[i + 1] IN
         IF code = CHAR_FORWARD_SLASH
         THEN IF ~st.matchedSlash
              THEN [st EXCEPT !.startPart = i + 1]       \* break
              ELSE extnameLoop(path, i - 1, st)          \* continue
         ELSE LET s1 == IF st.end = -1
                        THEN [st EXCEPT !.matchedSlash = FALSE, !.end = i + 1]
                        ELSE st
                  s2 == IF code = CHAR_DOT
                        THEN IF s1.startDot = -1
                             THEN [s1 EXCEPT !.startDot = i]
                             ELSE IF s1.preDotState # 1
                                  THEN [s1 EXCEPT !.preDotState = 1]
                                  ELSE s1
                        ELSE IF s1.startDot # -1
                             THEN [s1 EXCEPT !.preDotState = -1]
                             ELSE s1
              IN extnameLoop(path, i - 1, s2)

\* variant of extname: everything from the last '.' of the whole string
extnameLastDot(path) ==
    LET dots == { i \in 1..Len(path) : path[i] = CHAR_DOT }
    IN IF dots = {} THEN <<>>
       ELSE SubSeq(path, CHOOSE i \in dots : \A j \in dots : j <= i, Len(path))

extname(path) ==
    LET st == extnameLoop(path, Len(path) - 1,
                          [startDot |-> -1, startPart |-> 0, end |-> -1,
                           matchedSlash |-> TRUE, preDotState |-> 0])
    IN IF \/ st.startDot = -1
          \/ st.end = -1
          \/ st.preDotState = 0
          \/ (st.preDotState = 1 /\ st.startDot = st.end - 1
                                 /\ st.startDot = st.startPart + 1)
       THEN <<>>
       ELSE slice(path, st.startDot, st.end)

\* path.extname(filePathOrUrl).toLowerCase().slice(1)
deriveExtension(filePathOrUrl) ==
    LET e == toLowerCase(extname(filePathOrUrl))
    IN IF e = <<>> THEN <<>> ELSE slice(e, 1, Len(e))

\* mimeTypes[extension] || 'application/octet-stream'
lookupOrDefault(ext) ==
    IF Truthy(mimeTypesGet(ext)) THEN mimeTypesGet(ext) ELSE Str(DefaultMimeType)

\* filePathOrUrl.startsWith('http://') || filePathOrUrl.startsWith('https://')
isUrl(filePathOrUrl) ==
    \/ startsWith(filePathOrUrl, <<104, 116, 116, 112, 58, 47, 47>>)       \* 'http://'
    \/ startsWith(filePathOrUrl, <<104, 116, 116, 112, 115, 58, 47, 47>>)      \* 'https://'

\* variant of BufferAlloc: Buffer.allocUnsafe(size), here over memory that held an MP4 header
BufferAllocUnsafe(size) ==
    [i \in 1..size |-> <<0, 0, 0, 32, 102, 116, 121, 112, 109, 112, 52, 50>>[((i - 1) % 12) + 1]]

\* Buffer.alloc(size): zero-filled
BufferAlloc(size) == [i \in 1..size |-> 0]

ReadLength == 12

(* fs.readSync(fd, buffer, 0, 12, 0) on a file holding `bytes`: the first  *)
(* min(12, size) bytes are copied to the start of buf, the rest of buf is  *)
(* left as it was.                                                         *)
readInto(buf, bytes) ==
    LET n == IF Len(bytes) < ReadLength THEN Len(bytes) ELSE ReadLength
    IN [i \in 1..Len(buf) |-> IF i <= n THEN bytes[i] ELSE buf[i]]

----------------------------------------------------------------------------
(* The category tests and getMimeExtension *)

\* variant of documentTest: the prefix test alone
documentTestPrefixOnly(m) == startsWith(m, <<97, 112, 112, 108, 105, 99, 97, 116, 105, 111, 110, 47>>)

\* mimeType.startsWith('application/') || mimeType === 'text/plain'
documentTest(m) ==
    \/ startsWith(m, <<97, 112, 112, 108, 105, 99, 97, 116, 105, 111, 110, 47>>)      \* 'application/'
    \/ m = <<116, 101, 120, 116, 47, 112, 108, 97, 105, 110>>                   \* 'text/plain'

\* mimeType.startsWith('image/')
imageTest(m) == startsWith(m, <<105, 109, 97, 103, 101, 47>>)

\* mimeType.startsWith('audio/')
audioTest(m) == startsWith(m, <<97, 117, 100, 105, 111, 47>>)

\* mimeType.startsWith('video/')
videoTest(m) == startsWith(m, <<118, 105, 100, 101, 111, 47>>)

\* variant of findEntry: the last entry with that value, as a reversed map would keep
RECURSIVE findEntryLast(_, _)
findEntryLast(normalizedMimeType, i) ==
    IF i > Len(mimeTypes) THEN Undefined
    ELSE LET later == findEntryLast(normalizedMimeType, i + 1)
         IN IF later.kind = "entry" THEN later
            ELSE IF toLowerCase(mimeTypes[i][2]) = normalizedMimeType
            THEN [kind |-> "entry", val |-> mimeTypes[i]]
            ELSE Undefined

\* Object.entries(mimeTypes).find(([_, mime]) => mime.toLowerCase() === normalizedMimeType), from entry i
RECURSIVE findEntry(_, _)
findEntry(normalizedMimeType, i) ==
    IF i > Len(mimeTypes) THEN Undefined
    ELSE IF toLowerCase(mimeTypes[i][2]) = normalizedMimeType
    THEN [kind |-> "entry", val |-> mimeTypes[i]]
    ELSE findEntry(normalizedMimeType, i + 1)

\* extension ? `.${extension[0]}` : null
getMimeExtension(m) ==
    LET normalizedMimeType == toLowerCase(m)
        found == findEntry(normalizedMimeType, 1)
    IN IF found.kind = "entry" THEN Str(<<46>> \o found.val[1]) ELSE Null

----------------------------------------------------------------------------
(* Inputs *)

MaxPad == 1

MaxCut == 1

\* the byte strings of the signatures of group k
sigBytesOf(k) ==
    { magicBytes[k].signatures[j].bytes : j \in 1..Len(magicBytes[k].signatures) }

\* 00 00 00 20, the size field that opens an ISO media file, p times
RECURSIVE Pad(_)
Pad(p) == IF p = 0 THEN <<>> ELSE <<0, 0, 0, 32>> \o Pad(p - 1)

\* what follows the padding: nothing, a listed signature, or a JPEG header the table does not list
Heads ==
    UNION { sigBytesOf(k) : k \in 1..Len(magicBytes) }
    \cup { <<>>, <<255, 216, 255, 219>> }     \* ff d8 ff db

\* what follows the head: nothing, or one of the two MP4 tags (ftyp, mp42)
Tails == { <<>> } \cup sigBytesOf(6)

\* s without its last k bytes
DropLast(s, k) == IF Len(s) <= k THEN <<>> ELSE SubSeq(s, 1, Len(s) - k)

(* The contents of a file or of a response body: padding, head and tail,   *)
(* cut short by up to MaxCut bytes.                                        *)
Contents ==
    { DropLast(Pad(p) \o h \o t, k) :
          p \in 0..MaxPad, h \in Heads, t \in Tails, k \in 0..MaxCut }

Descriptors ==
    { <<97, 46>> \o mimeTypes[i][1] : i \in 1..Len(mimeTypes) }     \* a.pdf ... a.mkv
    \cup
    { <<65, 46, 74, 80, 71>>,                         \* A.JPG
      <<102, 105, 108, 101>>,                          \* file
      <<46, 112, 110, 103>>,                          \* .png
      <<100, 46, 100, 47, 102, 105, 108, 101>>,                      \* d.d/file
      <<97, 46, 98, 46, 109, 112, 51>>,                       \* a.b.mp3
      <<97, 46>>,                            \* a.
      <<46, 46>>,                            \* ..
      <<120, 47, 46, 97, 46, 66>>,                        \* x/.a.B
      <<97, 46, 120, 121, 122>>,                         \* a.xyz
      <<97, 46, 99, 111, 110, 115, 116, 114, 117, 99, 116, 111, 114>>,                 \* a.constructor
      <<97, 46, 95, 95, 112, 114, 111, 116, 111, 95, 95>>,                   \* a.__proto__
      <<104, 116, 116, 112, 115, 58, 47, 47, 120, 46, 99, 111, 109, 47, 102, 105, 108, 101, 46, 106, 112, 103, 63, 120, 61, 49>>,    \* https://x.com/file.jpg?x=1
      <<104, 116, 116, 112, 115, 58, 47, 47, 120, 46, 99, 111, 109, 47, 97, 46, 112, 110, 103>>,           \* https://x.com/a.png
      <<104, 116, 116, 112, 58, 47, 47, 120, 46, 99, 111, 109, 47, 97, 46, 106, 112, 103, 47>>,           \* http://x.com/a.jpg/
      <<104, 116, 116, 112, 58, 47, 47, 120, 46, 99, 111, 109, 47, 97>> }               \* http://x.com/a

upperChar(c) == IF c >= 97 /\ c <= 122 THEN c - 32 ELSE c

MimeArgs ==
    { mimeTypes[i][2] : i \in 1..Len(mimeTypes) }
    \cup { [j \in 1..Len(mimeTypes[i][2]) |-> upperChar(mimeTypes[i][2][j])] :
               i \in 1..Len(mimeTypes) }
    \cup { <<97, 112, 112, 108, 105, 99, 97, 116, 105, 111, 110, 47, 117, 110, 107, 110, 111, 119, 110>>,      \* application/unknown
           <<73, 109, 97, 103, 101, 47, 74, 112, 101, 103>>,               \* Image/Jpeg
           <<106, 112, 103>>,                      \* jpg
           <<>> }

ResolverOps == {"getMimeType", "isDocument", "isImage", "isAudio", "isVideo"}

(* Signature tables an importer can leave in the exported array: the       *)
(* built-in one, and two that use masks and overlapping groups.            *)
MaskedTable ==
    << [mimeType |-> <<97, 117, 100, 105, 111, 47, 109, 112, 101, 103>>,
        signatures |-> << [bytes |-> <<255, 224>>, mask |-> <<255, 224>>] >>],   \* ff e0 / ff e0
       [mimeType |-> <<105, 109, 97, 103, 101, 47, 106, 112, 101, 103>>,
        signatures |-> << [bytes |-> <<255, 216, 255>>] >>],                     \* ff d8 ff
       [mimeType |-> <<105, 109, 97, 103, 101, 47, 103, 105, 102>>,
        signatures |-> << [bytes |-> <<71, 73, 70, 56, 55, 97>>,
                           mask |-> <<255, 255, 255, 255, 241, 255>>] >>],       \* GIF8?a
       [mimeType |-> <<118, 105, 100, 101, 111, 47, 109, 112, 52>>,
        signatures |-> << [bytes |-> <<102, 116, 121, 112>>,
                           mask |-> <<255, 255, 255, 255>>, offset |-> 4] >>] >>

OverlapTable ==
    << [mimeType |-> <<118, 105, 100, 101, 111, 47, 109, 112, 52>>,
        signatures |-> << [bytes |-> <<109, 112, 52, 50>>, offset |-> 8],
                          [bytes |-> <<102, 116, 121, 112>>, offset |-> 4] >>],
       [mimeType |-> <<97, 112, 112, 108, 105, 99, 97, 116, 105, 111, 110, 47, 112, 100, 102>>,
        signatures |-> << [bytes |-> <<37, 80>>, mask |-> <<255, 240>>],         \* 25 5?
                          [bytes |-> <<37, 80, 68, 70>>] >>],
       [mimeType |-> <<97, 117, 100, 105, 111, 47, 109, 112, 101, 103>>,
        signatures |-> << [bytes |-> <<255, 251>>, mask |-> <<255, 0>>] >>] >>   \* ff ??

Tables == { magicBytes, MaskedTable, OverlapTable }

----------------------------------------------------------------------------
(* The calls *)

Init ==
    /\ pc = "idle"
    /\ op = "none"
    /\ arg = <<>>
    /\ table = magicBytes
    /\ openFds = {}
    /\ fd = 0
    /\ content = <<>>
    /\ buffer = <<>>
    /\ magicByteMimeType = Undefined
    /\ extension = <<>>
    /\ mimeType = Undefined
    /\ exit = "none"
    /\ ret = Undefined
    /\ threw = FALSE

\* a call of getMimeType, directly or by one of the four predicates, up to its first I/O
Call ==
    /\ pc = "idle"
    /\ \E o \in ResolverOps, a \in Descriptors :
          /\ op' = o
          /\ arg' = a
          /\ pc' = IF isUrl(a) THEN "fetch" ELSE "open"
    /\ UNCHANGED <<table, openFds, fd, content, buffer, magicByteMimeType,
                   extension, mimeType, exit, ret, threw>>

\* buffer = await getBufferFromUrl(filePathOrUrl): the request succeeds with some body
GetBufferFromUrlOk ==
    /\ pc = "fetch"
    /\ \E body \in Contents :
          /\ content' = body
          /\ buffer' = body
    /\ pc' = "match"
    /\ UNCHANGED <<op, arg, table, openFds, fd, magicByteMimeType, extension,
                   mimeType, exit, ret, threw>>

\* axios.get rejects (network error, HTTP error status)
GetBufferFromUrlFail ==
    /\ pc = "fetch"
    /\ pc' = "catch"
    /\ UNCHANGED <<op, arg, table, openFds, fd, content, buffer, magicByteMimeType,
                   extension, mimeType, exit, ret, threw>>

\* the lowest descriptor number not in use (0, 1, 2 are the standard streams)
FreshFd == CHOOSE n \in 3..(3 + Cardinality(openFds)) : n \notin openFds

\* const fd = fs.openSync(filePathOrUrl, 'r')
OpenSyncOk ==
    /\ pc = "open"
    /\ fd' = FreshFd
    /\ openFds' = openFds \cup {FreshFd}
    /\ pc' = "read"
    /\ UNCHANGED <<op, arg, table, content, buffer, magicByteMimeType, extension,
                   mimeType, exit, ret, threw>>

\* fs.openSync throws (ENOENT, EACCES, ...)
OpenSyncFail ==
    /\ pc = "open"
    /\ pc' = "catch"
    /\ UNCHANGED <<op, arg, table, openFds, fd, content, buffer, magicByteMimeType,
                   extension, mimeType, exit, ret, threw>>

\* buffer = Buffer.alloc(12); fs.readSync(fd, buffer, 0, 12, 0)
ReadSyncOk ==
    /\ pc = "read"
    /\ \E bytes \in Contents :
          /\ content' = bytes
          /\ buffer' = readInto(BufferAlloc(ReadLength), bytes)
    /\ pc' = "close"
    /\ UNCHANGED <<op, arg, table, openFds, fd, magicByteMimeType, extension,
                   mimeType, exit, ret, threw>>

\* buffer = Buffer.alloc(12); fs.readSync throws (EISDIR for a directory, EIO, ...)
ReadSyncFail ==
    /\ pc = "read"
    /\ buffer' = BufferAlloc(ReadLength)
    /\ pc' = "catch"
    /\ UNCHANGED <<op, arg, table, openFds, fd, content, magicByteMimeType, extension,
                   mimeType, exit, ret, threw>>

\* fs.closeSync(fd)
CloseSync ==
    /\ pc = "close"
    /\ openFds' = openFds \ {fd}
    /\ pc' = "match"
    /\ UNCHANGED <<op, arg, table, fd, content, buffer, magicByteMimeType, extension,
                   mimeType, exit, ret, threw>>

\* const magicByteMimeType = checkMagicBytes(buffer); if (magicByteMimeType) return it
CheckMagic ==
    /\ pc = "match"
    /\ magicByteMimeType' = checkMagicBytes(buffer)
    /\ IF Truthy(checkMagicBytes(buffer))
       THEN /\ mimeType' = checkMagicBytes(buffer)
            /\ exit' = "magic"
            /\ pc' = "return"
       ELSE /\ pc' = "fallback"
            /\ UNCHANGED <<mimeType, exit>>
    /\ UNCHANGED <<op, arg, table, openFds, fd, content, buffer, extension, ret, threw>>

\* the try block's extension lookup and return
Fallback ==
    /\ pc = "fallback"
    /\ extension' = deriveExtension(arg)
    /\ mimeType' = lookupOrDefault(deriveExtension(arg))
    /\ exit' = "fallback"
    /\ pc' = "return"
    /\ UNCHANGED <<op, arg, table, openFds, fd, content, buffer, magicByteMimeType,
                   ret, threw>>

\* the catch block's extension lookup and return
Catch ==
    /\ pc = "catch"
    /\ extension' = deriveExtension(arg)
    /\ mimeType' = lookupOrDefault(deriveExtension(arg))
    /\ exit' = "catch"
    /\ pc' = "return"
    /\ UNCHANGED <<op, arg, table, openFds, fd, content, buffer, magicByteMimeType,
                   ret, threw>>

\* getMimeType was called directly: its value is the caller's
GetMimeTypeReturn ==
    /\ pc = "return"
    /\ op = "getMimeType"
    /\ ret' = mimeType
    /\ pc' = "done"
    /\ UNCHANGED <<op, arg, table, openFds, fd, content, buffer, magicByteMimeType,
                   extension, mimeType, exit, threw>>

(* The line after `await getMimeType(...)` of a predicate: a method call   *)
(* on the resolved value, a TypeError when that value has no startsWith.   *)
PredicateReturn(result) ==
    /\ IF mimeType.kind = "string"
       THEN /\ ret' = Bool(result)
            /\ threw' = FALSE
       ELSE /\ threw' = TRUE
            /\ ret' = Undefined
    /\ pc' = "done"
    /\ UNCHANGED <<op, arg, table, openFds, fd, content, buffer, magicByteMimeType,
                   extension, mimeType, exit>>

IsDocument ==
    /\ pc = "return"
    /\ op = "isDocument"
    /\ PredicateReturn(documentTest(mimeType.val))

IsImage ==
    /\ pc = "return"
    /\ op = "isImage"
    /\ PredicateReturn(imageTest(mimeType.val))

IsAudio ==
    /\ pc = "return"
    /\ op = "isAudio"
    /\ PredicateReturn(audioTest(mimeType.val))

IsVideo ==
    /\ pc = "return"
    /\ op = "isVideo"
    /\ PredicateReturn(videoTest(mimeType.val))

\* getMimeExtension(mimeType), synchronous
GetMimeExtension ==
    /\ pc = "idle"
    /\ \E m \in MimeArgs :
          /\ op' = "getMimeExtension"
          /\ arg' = m
          /\ ret' = getMimeExtension(m)
    /\ pc' = "done"
    /\ UNCHANGED <<table, openFds, fd, content, buffer, magicByteMimeType, extension,
                   mimeType, exit, threw>>

Next ==
    \/ Call
    \/ GetBufferFromUrlOk
    \/ GetBufferFromUrlFail
    \/ OpenSyncOk
    \/ OpenSyncFail
    \/ ReadSyncOk
    \/ ReadSyncFail
    \/ CloseSync
    \/ CheckMagic
    \/ Fallback
    \/ Catch
    \/ GetMimeTypeReturn
    \/ IsDocument
    \/ IsImage
    \/ IsAudio
    \/ IsVideo
    \/ GetMimeExtension

Spec == Init /\ [][Next]_vars

(* checkMagicBytes on its own, over every table of Tables and every        *)
(* buffer of Contents.                                                     *)
MatcherInit ==
    /\ pc = "idle"
    /\ op = "none"
    /\ arg = <<>>
    /\ table \in Tables
    /\ openFds = {}
    /\ fd = 0
    /\ content = <<>>
    /\ buffer = <<>>
    /\ magicByteMimeType = Undefined
    /\ extension = <<>>
    /\ mimeType = Undefined
    /\ exit = "none"
    /\ ret = Undefined
    /\ threw = FALSE

MatcherCheck ==
    /\ pc = "idle"
    /\ \E buf \in Contents :
          /\ buffer' = buf
          /\ magicByteMimeType' = checkMagicBytes(buf)
    /\ op' = "checkMagicBytes"
    /\ pc' = "done"
    /\ UNCHANGED <<arg, table, openFds, fd, content, extension, mimeType, exit, ret, threw>>

MatcherNext == MatcherCheck

MatcherSpec == MatcherInit /\ [][MatcherNext]_vars

----------------------------------------------------------------------------
(* Reference definitions the properties are stated with *)

\* bit b of the byte x
Bit(x, b) == (x \div (2 ^ b)) % 2

(* s matches buf: the buffer reaches to the end of the signature, and at   *)
(* every position the bits the mask selects are those of the signature.    *)
RefSigMatches(buf, s) ==
    LET off == IF "offset" \in DOMAIN s THEN s.offset ELSE 0
        m(i) == IF "mask" \in DOMAIN s THEN s.mask[i] ELSE 255
    IN /\ Len(buf) >= off + Len(s.bytes)
       /\ \A i \in 1..Len(s.bytes) : \A b \in 0..7 :
             Bit(m(i), b) = 1 => Bit(buf[off + i], b) = Bit(s.bytes[i], b)

RefGroupMatches(buf, g) ==
    \E j \in 1..Len(g.signatures) : RefSigMatches(buf, g.signatures[j])

\* the MIME type of the earliest-declared group of T with a matching signature, or null
RefMatch(buf, T) ==
    LET hits == { k \in 1..Len(T) : RefGroupMatches(buf, T[k]) }
    IN IF hits = {} THEN Null
       ELSE Str(T[CHOOSE k \in hits : \A h \in hits : k <= h].mimeType)

\* buf holds exactly the bytes of s at the offset of s
ContainsAt(buf, s) ==
    LET off == IF "offset" \in DOMAIN s THEN s.offset ELSE 0
    IN /\ Len(buf) >= off + Len(s.bytes)
       /\ SubSeq(buf, off + 1, off + Len(s.bytes)) = s.bytes

\* the pairs <<group, signature>> of the built-in table
BuiltInSignatures ==
    { kj \in (1..Len(magicBytes)) \X (1..3) : kj[2] <= Len(magicBytes[kj[1]].signatures) }

TableKeys == { mimeTypes[i][1] : i \in 1..Len(mimeTypes) }

\* the Extension Table entry of e, or the default when it has none
TableEntryOrDefault(e) ==
    IF e \in TableKeys
    THEN mimeTypes[CHOOSE i \in 1..Len(mimeTypes) : mimeTypes[i][1] = e][2]
    ELSE DefaultMimeType

\* getMimeType has completed after a successful acquisition
ResolvedFromContent ==
    /\ pc = "done"
    /\ op \in ResolverOps
    /\ exit \in {"magic", "fallback"}

\* getMimeType has completed by an extension lookup
ResolvedByExtension ==
    /\ pc = "done"
    /\ op \in ResolverOps
    /\ exit \in {"fallback", "catch"}

----------------------------------------------------------------------------
(* C1 *)

(* C1, as claimed: after a successful acquisition, every built-in          *)
(* signature whose bytes the buffer holds at its offset decides the        *)
(* result, whatever the other bytes and the extension.                     *)
C1_EverySignatureDecides ==
    ResolvedFromContent =>
        \A kj \in BuiltInSignatures :
            ContainsAt(buffer, magicBytes[kj[1]].signatures[kj[2]])
                => mimeType = Str(magicBytes[kj[1]].mimeType)

(* C1, amended: a built-in signature whose bytes the buffer holds at its   *)
(* offset decides the result (by the return of the signature branch, the   *)
(* extension never read) when no earlier-declared group has a signature    *)
(* in the buffer too; for the groups before video/mp4 none ever has.       *)
C1_EarliestGroupDecides ==
    ResolvedFromContent =>
        \A kj \in BuiltInSignatures :
            /\ ContainsAt(buffer, magicBytes[kj[1]].signatures[kj[2]])
            /\ \/ magicBytes[kj[1]].mimeType \notin { <<118, 105, 100, 101, 111, 47, 109, 112, 52>>, <<118, 105, 100, 101, 111, 47, 119, 101, 98, 109>> }
               \/ \A k \in 1..(kj[1] - 1) : \A j \in 1..Len(magicBytes[k].signatures) :
                     ~ContainsAt(buffer, magicBytes[k].signatures[j])
            => /\ mimeType = Str(magicBytes[kj[1]].mimeType)
               /\ exit = "magic"

\* C1 witness: a.txt holding an ftyp tag at offset 4 resolved to video/mp4
C1_Witness ==
    /\ ResolvedFromContent
    /\ arg = <<97, 46, 116, 120, 116>>
    /\ ContainsAt(buffer, magicBytes[6].signatures[1])
    /\ mimeType = Str(<<118, 105, 100, 101, 111, 47, 109, 112, 52>>)

----------------------------------------------------------------------------
(* C2 *)

(* C2, as claimed: when acquisition fails, getMimeType returns the         *)
(* Extension Table entry of the derived extension, or                      *)
(* application/octet-stream when the table has none, and raises nothing.   *)
C2_FailureGivesTableEntryOrDefault ==
    (pc = "done" /\ op = "getMimeType" /\ exit = "catch") =>
        /\ threw = FALSE
        /\ ret = Str(TableEntryOrDefault(deriveExtension(arg)))

----------------------------------------------------------------------------
(* C3 *)

(* C3, as claimed: with a derived extension that is no key of the table    *)
(* and no signature matched (or acquisition failed), the result is the     *)
(* string application/octet-stream.                                        *)
C3_UnknownExtensionGivesDefault ==
    (ResolvedByExtension /\ deriveExtension(arg) \notin TableKeys) =>
        mimeType = Str(DefaultMimeType)

----------------------------------------------------------------------------
(* C4 *)

\* a and b are equal up to the case of their letters
EqIgnoreCase(a, b) ==
    /\ Len(a) = Len(b)
    /\ \A i \in 1..Len(a) : upperChar(a[i]) = upperChar(b[i])

(* C4: getMimeExtension(m) is "." and the key of the first entry, in       *)
(* declaration order, whose value equals m up to case, and null when no    *)
(* entry has that value; the extension returned maps back to that value;   *)
(* image/jpeg gives .jpg.                                                  *)
C4_FirstEntryInDeclarationOrder ==
    (pc = "done" /\ op = "getMimeExtension") =>
        LET hits == { i \in 1..Len(mimeTypes) : EqIgnoreCase(mimeTypes[i][2], arg) }
            first == CHOOSE i \in hits : \A h \in hits : i <= h
        IN /\ hits = {} => ret = Null
           /\ hits # {} =>
                 /\ ret = Str(<<46>> \o mimeTypes[first][1])
                 /\ TableEntryOrDefault(SubSeq(ret.val, 2, Len(ret.val))) = mimeTypes[first][2]
           /\ arg = <<105, 109, 97, 103, 101, 47, 106, 112, 101, 103>> => ret = Str(<<46, 106, 112, 103>>)

\* C4 witness: IMAGE/JPEG gave .jpg
C4_Witness ==
    /\ pc = "done"
    /\ op = "getMimeExtension"
    /\ arg = <<73, 77, 65, 71, 69, 47, 74, 80, 69, 71>>
    /\ ret = Str(<<46, 106, 112, 103>>)

----------------------------------------------------------------------------
(* C5 *)

(* C5, as claimed: getMimeType completes with a string and each predicate  *)
(* with a boolean, and none raises an error, whatever the I/O did.         *)
C5_AlwaysAValueNeverAnError ==
    (pc = "done" /\ op \in ResolverOps) =>
        /\ threw = FALSE
        /\ ret.kind = (IF op = "getMimeType" THEN "string" ELSE "boolean")

----------------------------------------------------------------------------
(* C6 *)

(* C6: checkMagicBytes(buffer) is the MIME type of the earliest-declared   *)
(* group with a signature that fits the buffer and agrees with it on the   *)
(* masked bits (mask 0xff and offset 0 when absent), and null exactly      *)
(* when no signature of any group does.                                    *)
C6_MatcherIsReference ==
    (pc = "done" /\ op = "checkMagicBytes") =>
        magicByteMimeType = RefMatch(buffer, table)

\* C6 witness: two groups match by masked signatures and the earlier-declared one is returned
C6_Witness ==
    /\ pc = "done"
    /\ op = "checkMagicBytes"
    /\ table = OverlapTable
    /\ RefGroupMatches(buffer, table[1])
    /\ RefGroupMatches(buffer, table[3])
    /\ ~ContainsAt(buffer, table[3].signatures[1])
    /\ magicByteMimeType = Str(table[1].mimeType)

----------------------------------------------------------------------------
(* C7 *)

(* C7: for a local file of n < 12 bytes, no built-in signature that ends   *)
(* beyond n matches the buffer, and the result is that of the matcher on   *)
(* exactly the n bytes, followed by the extension lookup.                  *)
C7_ShortFileMatchesAsTruncated ==
    (ResolvedFromContent /\ ~isUrl(arg) /\ Len(content) < ReadLength) =>
        /\ \A kj \in BuiltInSignatures :
              LET s == magicBytes[kj[1]].signatures[kj[2]]
                  off == IF "offset" \in DOMAIN s THEN s.offset ELSE 0
              IN off + Len(s.bytes) > Len(content) => ~RefSigMatches(buffer, s)
        /\ mimeType = IF RefMatch(content, magicBytes) # Null
                      THEN RefMatch(content, magicBytes)
                      ELSE lookupOrDefault(deriveExtension(arg))

\* C7 witness: a 7-byte file that ends inside the ftyp tag went on to the extension lookup
C7_Witness ==
    /\ ResolvedFromContent
    /\ ~isUrl(arg)
    /\ content = <<0, 0, 0, 32, 102, 116, 121>>
    /\ Len(buffer) = ReadLength
    /\ exit = "fallback"

----------------------------------------------------------------------------
(* C8 *)

\* the lower-cased text after the last '.' of the whole string, empty without a '.'
AfterLastDotOfWhole(s) ==
    LET dots == { i \in 1..Len(s) : s[i] = 46 }
    IN IF dots = {} THEN <<>>
       ELSE toLowerCase(SubSeq(s, (CHOOSE i \in dots : \A j \in dots : j <= i) + 1, Len(s)))

(* C8, as claimed: the extension looked up is the lower-cased text after   *)
(* the last '.' of the whole descriptor, empty when it has no '.'.         *)
C8_ExtensionIsAfterLastDotOfWhole ==
    ResolvedByExtension => extension = AfterLastDotOfWhole(arg)

(* The last path segment of s (what follows the last '/' that has a        *)
(* character other than '/' after it, trailing '/' dropped) as <<from, to>>.*)
LastSegment(s) ==
    LET nonSlash == { i \in 1..Len(s) : s[i] # 47 }
        to == IF nonSlash = {} THEN 0
              ELSE CHOOSE i \in nonSlash : \A j \in nonSlash : j <= i
        slashes == { i \in 1..to : s[i] = 47 }
        from == IF slashes = {} THEN 1
                ELSE (CHOOSE i \in slashes : \A j \in slashes : j <= i) + 1
    IN <<from, to>>

(* C8, amended: the extension looked up is the lower-cased text after the  *)
(* last '.' of the last path segment of the descriptor, and empty when     *)
(* that segment has no '.' or has its last '.' as its first character;     *)
(* no query string or fragment is removed.                                 *)
C8_ExtensionIsAfterLastDotOfLastSegment ==
    ResolvedByExtension =>
        LET seg == LastSegment(arg)
            dots == { i \in seg[1]..seg[2] : arg[i] = 46 }
            last == CHOOSE i \in dots : \A j \in dots : j <= i
        IN extension = IF dots = {} \/ last = seg[1]
                       THEN <<>>
                       ELSE toLowerCase(SubSeq(arg, last + 1, seg[2]))

\* C8 witness: https://x.com/file.jpg?x=1 derived jpg?x=1 and fell to the default
C8_Witness ==
    /\ ResolvedByExtension
    /\ arg = <<104, 116, 116, 112, 115, 58, 47, 47, 120, 46, 99, 111, 109, 47, 102, 105, 108, 101, 46, 106, 112, 103, 63, 120, 61, 49>>
    /\ extension = <<106, 112, 103, 63, 120, 61, 49>>
    /\ mimeType = Str(DefaultMimeType)

----------------------------------------------------------------------------
(* C9 *)

(* C9, as claimed: when getMimeType has completed, no file handle it       *)
(* opened is still open.                                                   *)
C9_NoHandleLeftOpen ==
    pc \in {"return", "done"} => openFds = {}

----------------------------------------------------------------------------
(* C10 *)

\* every string getMimeType is written to return
ResolverRange ==
    { magicBytes[k].mimeType : k \in 1..Len(magicBytes) }
    \cup { mimeTypes[i][2] : i \in 1..Len(mimeTypes) }
    \cup { DefaultMimeType }

\* how many of the four category tests m passes
CategoryCount(m) ==
    (IF documentTest(m) THEN 1 ELSE 0) + (IF imageTest(m) THEN 1 ELSE 0)
    + (IF audioTest(m) THEN 1 ELSE 0) + (IF videoTest(m) THEN 1 ELSE 0)

(* C10: every string of the resolver's range passes exactly one of the     *)
(* four category tests, the default passes the document test, and a        *)
(* string that getMimeType resolved with is of that range.                 *)
C10_CategoriesPartitionTheRange ==
    /\ \A m \in ResolverRange : CategoryCount(m) = 1
    /\ documentTest(DefaultMimeType)
    /\ (pc = "done" /\ op \in ResolverOps /\ mimeType.kind = "string") =>
          /\ mimeType.val \in ResolverRange
          /\ CategoryCount(mimeType.val) = 1

\* C10 witness: isDocument answered true for a file resolved to the default type
C10_Witness ==
    /\ pc = "done"
    /\ op = "isDocument"
    /\ mimeType = Str(DefaultMimeType)
    /\ ret = Bool(TRUE)

====
